---- MODULE Spec2Model ----
(***************************************************************************)
(* Model of src/cli.rs: the `mycli` argument schema (derive attributes on  *)
(* Cli, Commands, FileArgs, ConfigArgs, ProcessArgs), the value parser     *)
(* parse_key_val, and main.  Cli::parse() is the library's parser run on   *)
(* that schema; its steps are modelled one raw argument at a time.         *)
(*                                                                         *)
(* Strings are sequences of one-character strings, so that prefix tests    *)
(* ("--", "-"), splitting at "=", digit parsing and name lookup are        *)
(* computed rather than assumed.                                           *)
(***************************************************************************)
EXTENDS Integers, Sequences, FiniteSets, TLC

VARIABLES
    debug_assertions,  \* build profile: TRUE for a debug build, FALSE for --release
    argv,              \* raw arguments read so far (program name excluded)
    eof,               \* TRUE once the argument iterator is exhausted
    pc,                \* "parse" | "main" | "exit" | "done"
    command,           \* active subcommand name ("" while at the root command)
    root,              \* parser of the root command: matches, pending values, state
    sub,               \* parser of the selected subcommand
    err,               \* the error Cli::parse() ended with (kind "none" if none)
    cli,               \* the Cli struct handed to main after a successful parse
    stdout,            \* lines printed by main
    exit_code          \* process exit status (-1 while running)

vars == <<debug_assertions, argv, eof, pc, command, root, sub, err, cli, stdout,
          exit_code>>

(***************************************************************************)
(* Bounds                                                                  *)
(***************************************************************************)
\* longest argument vector explored
MaxArgs == 6
\* longest generated value of --options
MaxStrLen == 2

(***************************************************************************)
(* Schema                                                                  *)
(***************************************************************************)
NoString == <<>>
\* Option<T>: None is the empty sequence, Some(v) is <<v>>
None == <<>>
Some(v) == <<v>>

\* #[derive(ValueEnum)] enum LogLevel: variant |-> possible value (kebab-case)
LogLevel ==
    [Debug   |-> <<"d","e","b","u","g">>,
     Info    |-> <<"i","n","f","o">>,
     Warning |-> <<"w","a","r","n","i","n","g">>,
     Error   |-> <<"e","r","r","o","r">>]

\* #[derive(ValueEnum)] enum OutputFormat
OutputFormat ==
    [Json |-> <<"j","s","o","n">>,
     Yaml |-> <<"y","a","m","l">>,
     Text |-> <<"t","e","x","t">>]

\* #[derive(Subcommand)] enum Commands: subcommand name |-> its argument ids,
\* in declaration order
Commands ==
    [files   |-> <<"source", "destination", "recursive", "patterns", "max_depth">>,
     config  |-> <<"set", "get", "list", "file">>,
     process |-> <<"input_files", "format", "threads", "batch_size", "dry_run", "options">>]

CommandName ==
    [files   |-> <<"f","i","l","e","s">>,
     config  |-> <<"c","o","n","f","i","g">>,
     process |-> <<"p","r","o","c","e","s","s">>]

\* struct Cli: the root command's own arguments
Cli == <<"log_level", "verbose">>

ArgIds ==
    {"log_level", "verbose",
     "source", "destination", "recursive", "patterns", "max_depth",
     "set", "get", "list", "file",
     "input_files", "format", "threads", "batch_size", "dry_run", "options"}

\* One #[arg(...)] attribute together with its field type.  short is "" and
\* long is <<>> when absent; num_args is min..=max, max = -1 meaning no upper
\* limit; default is <<>> when there is no default_value (a SetTrue switch has
\* the implicit default false, see default_match).
ArgSpec(short, long, action, min, max, parser, default, required, global) ==
    [short |-> short, long |-> long, action |-> action, min |-> min, max |-> max,
     parser |-> parser, default |-> default, required |-> required, global |-> global]

\* the #[arg(...)] attributes of the schema, by field name
Args ==
    [log_level |->
           ArgSpec("l", <<"l","o","g","-","l","e","v","e","l">>, "Set", 1, 1,
                   "LogLevel", <<"i","n","f","o">>, FALSE, TRUE),
     verbose |->
           ArgSpec("v", <<"v","e","r","b","o","s","e">>, "SetTrue", 0, 0,
                   "bool", NoString, FALSE, TRUE),
     source |->
           ArgSpec("s", <<"s","o","u","r","c","e">>, "Set", 1, 1,
                   "PathBuf", NoString, TRUE, FALSE),
     destination |->
           ArgSpec("d", <<"d","e","s","t","i","n","a","t","i","o","n">>, "Set", 1, 1,
                   "PathBuf", NoString, FALSE, FALSE),
     recursive |->
           ArgSpec("r", <<"r","e","c","u","r","s","i","v","e">>, "SetTrue", 0, 0,
                   "bool", NoString, FALSE, FALSE),
     patterns |->
           ArgSpec("p", <<"p","a","t","t","e","r","n","s">>, "Append", 1, -1,
                   "String", NoString, FALSE, FALSE),
     max_depth |->
           ArgSpec("", <<"m","a","x","-","d","e","p","t","h">>, "Set", 1, 1,
                   "u32", <<"1","0">>, FALSE, FALSE),
     set |->
           ArgSpec("s", <<"s","e","t">>, "Append", 2, 2,
                   "String", NoString, FALSE, FALSE),
     get |->
           ArgSpec("g", <<"g","e","t">>, "Set", 1, 1,
                   "String", NoString, FALSE, FALSE),
     list |->
           ArgSpec("l", <<"l","i","s","t">>, "SetTrue", 0, 0,
                   "bool", NoString, FALSE, FALSE),
     file |->
           ArgSpec("f", <<"f","i","l","e">>, "Set", 1, 1,
                   "PathBuf", <<"c","o","n","f","i","g",".","y","a","m","l">>, FALSE, FALSE),
     input_files |->
           ArgSpec("", NoString, "Append", 1, -1,
                   "PathBuf", NoString, TRUE, FALSE),
     format |->
           ArgSpec("f", <<"f","o","r","m","a","t">>, "Set", 1, 1,
                   "OutputFormat", <<"t","e","x","t">>, FALSE, FALSE),
     threads |->
           ArgSpec("t", <<"t","h","r","e","a","d","s">>, "Set", 1, 1,
                   "u32", <<"1">>, FALSE, FALSE),
     batch_size |->
           ArgSpec("b", <<"b","a","t","c","h","-","s","i","z","e">>, "Set", 1, 1,
                   "usize", <<"1","0","0">>, FALSE, FALSE),
     dry_run |->
           ArgSpec("", <<"d","r","y","-","r","u","n">>, "SetTrue", 0, 0,
                   "bool", NoString, FALSE, FALSE),
     options |->
           ArgSpec("o", <<"o","p","t","i","o","n","s">>, "Append", 1, 1,
                   "key_val", NoString, FALSE, FALSE)]

Arg(id) == Args[id]

IsPositional(id) == Arg(id).short = "" /\ Arg(id).long = NoString

\* ArgGroup::new("config_action").required(true).args(["set", "get", "list"])
\* (multiple is left at its default, false): command |-> its groups
ArgGroups(c) ==
    IF c = "config"
    THEN {[id |-> "config_action", required |-> TRUE, args |-> {"set", "get", "list"}]}
    ELSE {}

SeqToSet(s) == {s[i] : i \in 1..Len(s)}

\* The arguments registered on command c once the root command is built: the
\* command's own arguments followed by every global argument of the root that
\* the subcommand does not declare under the same id.
GlobalArgs == SelectSeq(Cli, LAMBDA id : Arg(id).global)

CommandArgs(c) ==
    IF c = ""
    THEN Cli
    ELSE Commands[c] \o SelectSeq(GlobalArgs, LAMBDA id : id \notin SeqToSet(Commands[c]))

(***************************************************************************)
(* Value parsers                                                           *)
(***************************************************************************)
RECURSIVE find(_, _, _)
\* str::find(ch) from position i on: index of the first occurrence, 0 if none
find(s, ch, i) ==
    IF i > Len(s) THEN 0
    ELSE IF s[i] = ch THEN i
    ELSE find(s, ch, i + 1)

RECURSIVE rfind(_, _, _)
\* str::rfind(ch) from position i down: index of the last occurrence, 0 if none
rfind(s, ch, i) ==
    IF i = 0 THEN 0
    ELSE IF s[i] = ch THEN i
    ELSE rfind(s, ch, i - 1)

\* parse_key_val splitting at the last "=" instead of the first
parse_key_val_rfind(s) ==
    LET pos == rfind(s, "=", Len(s)) IN
    IF pos = 0
    THEN [ok |-> FALSE, val |-> None, raw |-> s]
    ELSE [ok |-> TRUE, val |-> <<SubSeq(s, 1, pos - 1), SubSeq(s, pos + 1, Len(s))>>,
          raw |-> NoString]

\* fn parse_key_val(s: &str) -> Result<(String, String), String>
parse_key_val(s) ==
    LET pos == find(s, "=", 1) IN
    IF pos = 0
    THEN [ok |-> FALSE, val |-> None, raw |-> s]
    ELSE [ok |-> TRUE, val |-> <<SubSeq(s, 1, pos - 1), SubSeq(s, pos + 1, Len(s))>>,
          raw |-> NoString]

Digit == [c \in {"0","1","2","3","4","5","6","7","8","9"} |->
            CASE c = "0" -> 0 [] c = "1" -> 1 [] c = "2" -> 2 [] c = "3" -> 3
              [] c = "4" -> 4 [] c = "5" -> 5 [] c = "6" -> 6 [] c = "7" -> 7
              [] c = "8" -> 8 [] c = "9" -> 9]

RECURSIVE from_str_radix(_, _)
\* decimal value of a digit string, most significant digit first
from_str_radix(s, acc) ==
    IF s = <<>> THEN acc ELSE from_str_radix(Tail(s), 10 * acc + Digit[Head(s)])

\* <u32 as FromStr>::from_str (threads: u32, max_depth: u32; batch_size: usize
\* is at least as wide): an optional "+", then one or more digits.  Strings of
\* up to nine digits are all below u32::MAX; longer digit strings, which may
\* overflow, are rejected here and do not occur in the vocabulary below.
parse_u32(s) ==
    LET digits == IF s # <<>> /\ Head(s) = "+" THEN Tail(s) ELSE s IN
    IF digits # <<>> /\ (\A i \in 1..Len(digits) : digits[i] \in DOMAIN Digit)
                    /\ Len(digits) <= 9
    THEN [ok |-> TRUE, val |-> from_str_radix(digits, 0), raw |-> NoString]
    ELSE [ok |-> FALSE, val |-> None, raw |-> s]

\* value_enum: the variant whose possible value equals s
parse_enum(variants, s) ==
    IF \E v \in DOMAIN variants : variants[v] = s
    THEN [ok |-> TRUE, val |-> CHOOSE v \in DOMAIN variants : variants[v] = s,
          raw |-> NoString]
    ELSE [ok |-> FALSE, val |-> None, raw |-> s]

\* The value parser selected by the field type or by value_parser = ...
value_parser(kind, s) ==
    CASE kind = "LogLevel"     -> parse_enum(LogLevel, s)
      [] kind = "OutputFormat" -> parse_enum(OutputFormat, s)
      [] kind \in {"u32", "usize"} -> parse_u32(s)
      [] kind = "key_val"      -> parse_key_val(s)
      [] OTHER                 -> [ok |-> TRUE, val |-> s, raw |-> NoString]

(***************************************************************************)
(* Parser of one command                                                   *)
(***************************************************************************)
NoErr == [kind |-> "none", args |-> {}, raw |-> NoString]
Error(kind, args, raw) == [kind |-> kind, args |-> args, raw |-> raw]

NoMatch == [source |-> "None", vals |-> <<>>]
NoPending == [id |-> "", vals |-> <<>>]

\* A fresh parser of command c: nothing matched, nothing pending
NewParser(c) ==
    [matches |-> [id \in SeqToSet(CommandArgs(c)) |-> NoMatch], pending |-> NoPending,
     parse_state |-> "ValuesDone", trailing |-> FALSE, err |-> NoErr]

Fail(P, e) == [P EXCEPT !.err = e]

\* num_args = min..=max against the number of raw values collected
verify_num_args(id, raw_vals) ==
    LET a == Arg(id)
        actual == Len(raw_vals) IN
    IF 0 < a.min /\ actual = 0 THEN "empty_value"
    ELSE IF a.min = a.max /\ actual # a.min THEN "wrong_number_of_values"
    ELSE IF actual < a.min THEN "too_few_values"
    ELSE IF a.max # -1 /\ a.max < actual THEN "too_many_values"
    ELSE "none"

RECURSIVE push_arg_values(_, _, _)
\* run the argument's value parser over the raw values in order; stops at the
\* first raw value the parser rejects
push_arg_values(id, raw_vals, acc) ==
    IF raw_vals = <<>> THEN [err |-> NoErr, vals |-> acc]
    ELSE LET r == value_parser(Arg(id).parser, Head(raw_vals)) IN
         IF r.ok
         THEN push_arg_values(id, Tail(raw_vals), Append(acc, r.val))
         ELSE [err |-> Error(IF Arg(id).parser \in {"LogLevel", "OutputFormat"}
                             THEN "invalid_value" ELSE "value_validation",
                             {id}, r.raw),
               vals |-> acc]

\* a parser in which a later occurrence silently replaces an earlier one
used_multiple_times_never(P, id) == FALSE

\* ArgAction::Set and ArgAction::SetTrue refuse a second occurrence of the
\* argument on the same command line; ArgAction::Append does not
used_multiple_times(P, id) ==
    Arg(id).action \in {"Set", "SetTrue"} /\ P.matches[id].source = "CommandLine"

\* the matched values after the action stores `vals` for `id`
store(P, id, vals) ==
    IF Arg(id).action = "Append"
    THEN [source |-> "CommandLine", vals |-> P.matches[id].vals \o vals]
    ELSE [source |-> "CommandLine", vals |-> vals]

\* the argument's action applied to the raw values of one occurrence
action(P, id, raw_vals) ==
    IF verify_num_args(id, raw_vals) # "none"
    THEN Fail(P, Error(verify_num_args(id, raw_vals), {id}, NoString))
    ELSE IF used_multiple_times(P, id)
    THEN Fail(P, Error("argument_conflict", {id}, NoString))
    ELSE IF Arg(id).action = "SetTrue"
    THEN [P EXCEPT !.matches[id] = store(P, id, <<TRUE>>)]
    ELSE LET r == push_arg_values(id, raw_vals, <<>>) IN
         IF r.err # NoErr THEN Fail(P, r.err)
         ELSE [P EXCEPT !.matches[id] = store(P, id, r.vals)]

\* the values collected for the pending argument are handed to its action
resolve_pending(P) ==
    IF P.pending.id = "" \/ P.err # NoErr THEN P
    ELSE action([P EXCEPT !.pending = NoPending], P.pending.id, P.pending.vals)

\* react: settle what is pending, then act on this occurrence
react(P, id, raw_vals) ==
    LET Q == resolve_pending(P) IN
    IF Q.err # NoErr THEN Q
    ELSE [action(Q, id, raw_vals) EXCEPT !.parse_state = "ValuesDone"]

(***************************************************************************)
(* One raw argument                                                        *)
(***************************************************************************)
\* first argument of command c whose long name is `name` ("" if none)
get_long(c, name) ==
    LET hits == SelectSeq(CommandArgs(c), LAMBDA id : Arg(id).long = name) IN
    IF name = NoString \/ hits = <<>> THEN "" ELSE Head(hits)

\* first argument of command c whose short name is ch ("" if none)
get_short(c, ch) ==
    LET hits == SelectSeq(CommandArgs(c), LAMBDA id : Arg(id).short = ch) IN
    IF hits = <<>> THEN "" ELSE Head(hits)

\* positional arguments of command c, by index
Positionals(c) == SelectSeq(CommandArgs(c), IsPositional)

is_escape(t) == t = <<"-", "-">>
is_long(t) == Len(t) > 2 /\ t[1] = "-" /\ t[2] = "-"
is_short(t) == Len(t) > 1 /\ t[1] = "-" /\ t[2] # "-"

\* "--name" or "--name=value": the name, and the attached value if any
to_long(t) ==
    LET rest == SubSeq(t, 3, Len(t))
        eq == find(rest, "=", 1) IN
    IF eq = 0
    THEN [name |-> rest, has_eq |-> FALSE, value |-> NoString]
    ELSE [name |-> SubSeq(rest, 1, eq - 1), has_eq |-> TRUE,
          value |-> SubSeq(rest, eq + 1, Len(rest))]

takes_value(id) == Arg(id).max # 0

\* an option that takes values: an attached value is the whole occurrence,
\* otherwise the following raw arguments are collected as pending values
parse_opt_value(P, id, has_value, value) ==
    IF has_value THEN react(P, id, <<value>>)
    ELSE LET Q == resolve_pending(P) IN
         IF Q.err # NoErr THEN Q
         ELSE [Q EXCEPT !.pending = [id |-> id, vals |-> <<>>], !.parse_state = "Opt"]

parse_long_arg(P, c, t) ==
    LET l == to_long(t)
        id == get_long(c, l.name) IN
    IF id = "" THEN Fail(P, Error("unknown_argument", {}, t))
    ELSE IF takes_value(id) THEN parse_opt_value(P, id, l.has_eq, l.value)
    ELSE IF l.has_eq THEN Fail(P, Error("too_many_values", {id}, l.value))
    ELSE react(P, id, <<>>)

RECURSIVE parse_short_arg(_, _, _)
\* "-abc": one flag per letter until a letter names an option that takes a
\* value; the rest of the cluster (less a leading "=") is then its value
parse_short_arg(P, c, flags) ==
    IF flags = <<>> THEN P
    ELSE LET id == get_short(c, Head(flags))
             rest == Tail(flags) IN
         IF id = "" THEN Fail(P, Error("unknown_argument", {}, <<"-", Head(flags)>>))
         ELSE IF ~takes_value(id)
         THEN LET Q == react(P, id, <<>>) IN
              IF Q.err # NoErr THEN Q ELSE parse_short_arg(Q, c, rest)
         ELSE IF rest = <<>> THEN parse_opt_value(P, id, FALSE, NoString)
         ELSE IF Head(rest) = "=" THEN parse_opt_value(P, id, TRUE, Tail(rest))
         ELSE parse_opt_value(P, id, TRUE, rest)

\* a value for the option whose values are pending
push_pending_value(P, t) ==
    LET vals == Append(P.pending.vals, t)
        max == Arg(P.pending.id).max IN
    [P EXCEPT !.pending.vals = vals,
              !.parse_state = IF max = -1 \/ Len(vals) < max THEN "Opt" ELSE "ValuesDone"]

\* a raw argument that is neither a flag nor an option's value.  No command
\* declares a single-valued positional, so the positional counter stays at 1.
parse_positional(P, c, t) ==
    IF Positionals(c) = <<>>
    THEN Fail(P, Error(IF c = "" THEN "invalid_subcommand" ELSE "unknown_argument", {}, t))
    ELSE LET id == Head(Positionals(c))
             Q == IF P.pending.id # id THEN resolve_pending(P) ELSE P IN
         IF Q.err # NoErr THEN Q
         ELSE [Q EXCEPT !.pending = [id |-> id, vals |-> Append(Q.pending.vals, t)],
                        !.parse_state = "Pos"]

\* the parser loop's body for one raw argument of command c
parse_arg(P, c, t) ==
    IF P.trailing THEN parse_positional(P, c, t)
    ELSE IF is_escape(t) THEN [P EXCEPT !.trailing = TRUE]
    ELSE IF is_long(t) THEN parse_long_arg(P, c, t)
    ELSE IF is_short(t) THEN parse_short_arg(P, c, Tail(t))
    ELSE IF P.parse_state = "Opt" THEN push_pending_value(P, t)
    ELSE parse_positional(P, c, t)

\* possible_subcommand: the raw argument names a subcommand and no option or
\* positional is still collecting values
possible_subcommand(P, t) ==
    IF ~P.trailing /\ P.parse_state \notin {"Opt", "Pos"}
          /\ \E c \in DOMAIN CommandName : CommandName[c] = t
    THEN CHOOSE c \in DOMAIN CommandName : CommandName[c] = t
    ELSE ""

(***************************************************************************)
(* End of the arguments of one command: defaults, then validation          *)
(***************************************************************************)
explicit(P, id) == P.matches[id].source = "CommandLine"

\* add_defaults that lets a declared default replace a supplied value
default_match_overwrites(P, id) ==
    IF Arg(id).default # NoString
    THEN [source |-> "DefaultValue",
          vals |-> <<value_parser(Arg(id).parser, Arg(id).default).val>>]
    ELSE IF P.matches[id].source # "None" THEN P.matches[id]
    ELSE IF Arg(id).action = "SetTrue"
    THEN [source |-> "DefaultValue", vals |-> <<FALSE>>]
    ELSE NoMatch

\* add_defaults: only arguments absent from the command line get a default
default_match(P, id) ==
    IF P.matches[id].source # "None" THEN P.matches[id]
    ELSE IF Arg(id).default # NoString
    THEN [source |-> "DefaultValue",
          vals |-> <<value_parser(Arg(id).parser, Arg(id).default).val>>]
    ELSE IF Arg(id).action = "SetTrue"
    THEN [source |-> "DefaultValue", vals |-> <<FALSE>>]
    ELSE NoMatch

add_defaults(P, c) ==
    [P EXCEPT !.matches = [id \in SeqToSet(CommandArgs(c)) |-> default_match(P, id)]]

\* members of group g present on the command line
group_members_present(P, g) == {id \in g.args : explicit(P, id)}

\* validate_conflicts: a group that is not `multiple` admits one member
validate_conflicts(P, c) ==
    IF \E g \in ArgGroups(c) : Cardinality(group_members_present(P, g)) > 1
    THEN LET g == CHOOSE h \in ArgGroups(c) : Cardinality(group_members_present(P, h)) > 1
         IN Error("argument_conflict", group_members_present(P, g), NoString)
    ELSE NoErr

\* validate_required: every required argument and every required group that
\* is not present on the command line, reported together
missing_required(P, c) ==
    {id \in SeqToSet(CommandArgs(c)) : Arg(id).required /\ ~explicit(P, id)}
      \cup {g.id : g \in {h \in ArgGroups(c) : h.required /\ group_members_present(P, h) = {}}}

\* validate_required that overlooks required positional arguments
validate_required_flags_only(P, c) ==
    IF {id \in missing_required(P, c) : id \notin ArgIds \/ ~IsPositional(id)} # {}
    THEN Error("missing_required_argument",
               {id \in missing_required(P, c) : id \notin ArgIds \/ ~IsPositional(id)},
               NoString)
    ELSE NoErr

validate_required(P, c) ==
    IF missing_required(P, c) # {}
    THEN Error("missing_required_argument", missing_required(P, c), NoString)
    ELSE NoErr

\* Validator::validate.  The root command has subcommand_required and
\* arg_required_else_help set (command: Commands is not an Option).
validate(P, c, has_subcmd) ==
    IF c = "" /\ ~has_subcmd /\ \A id \in SeqToSet(CommandArgs(c)) : ~explicit(P, id)
    THEN Error("display_help", {}, NoString)
    ELSE IF c = "" /\ ~has_subcmd
    THEN Error("missing_subcommand", {}, NoString)
    ELSE IF validate_conflicts(P, c) # NoErr THEN validate_conflicts(P, c)
    ELSE validate_required(P, c)

\* a finish that goes on validating after a failed value and reports the
\* missing required arguments together with it
finish_aggregating(P, c, has_subcmd) ==
    LET Q == resolve_pending(P)
        R == add_defaults([Q EXCEPT !.err = NoErr], c) IN
    IF Q.err # NoErr
    THEN Fail(Q, [Q.err EXCEPT !.args = @ \cup missing_required(R, c)])
    ELSE Fail(R, validate(R, c, has_subcmd))

\* get_matches_with after the last raw argument of the command
finish(P, c, has_subcmd) ==
    LET Q == resolve_pending(P) IN
    IF Q.err # NoErr THEN Q
    ELSE LET R == add_defaults(Q, c) IN
         Fail(R, validate(R, c, has_subcmd))

(***************************************************************************)
(* Debug assertions of the command builder                                 *)
(***************************************************************************)
\* two different arguments of command c answer to the same short or long name
alias_conflict(c) ==
    \E i, j \in 1..Len(CommandArgs(c)) :
        /\ i < j
        /\ LET a == Arg(CommandArgs(c)[i])
               b == Arg(CommandArgs(c)[j]) IN
           \/ (a.short # "" /\ a.short = b.short)
           \/ (a.long # NoString /\ a.long = b.long)

\* building a command asserts, in builds with debug assertions, that its
\* short and long names are unique; the assertion failing is a panic
build_panics(c) == debug_assertions /\ alias_conflict(c)

(***************************************************************************)
(* From matches to the Cli struct                                          *)
(***************************************************************************)
\* a global argument given on the command line of the root but not of the
\* subcommand keeps the root's value; otherwise the subcommand's is used
propagate_global(R, S, id) ==
    IF R.matches[id].source = "CommandLine" /\ S.matches[id].source # "CommandLine"
    THEN R.matches[id]
    ELSE S.matches[id]

\* the field for argument id: Vec and Option<Vec> hold all values, the other
\* field types the single value; an Option field is None when nothing matched
field(m, id) ==
    IF Arg(id).action = "Append" THEN (IF m.source = "None" THEN None ELSE Some(m.vals))
    ELSE IF m.source = "None" THEN None ELSE Some(m.vals[1])

from_arg_matches(R, S, c) ==
    [log_level |-> field(propagate_global(R, S, "log_level"), "log_level"),
     verbose   |-> field(propagate_global(R, S, "verbose"), "verbose"),
     command   |-> c,
     args      |-> [id \in SeqToSet(Commands[c]) |-> field(S.matches[id], id)]]

(***************************************************************************)
(* main                                                                    *)
(***************************************************************************)
\* set_values[0] and set_values[1] are indexed without a length check
main_panics(c) ==
    c.command = "config" /\ c.args["set"] # None /\ Len(c.args["set"][1]) < 2

\* default_value = "info" as a LogLevel
DefaultLogLevel == value_parser("LogLevel", Arg("log_level").default).val

\* the lines main prints for the selected subcommand
command_output(c) ==
    CASE c.command = "files" ->
           << <<"Running Files command with args:">>,
              <<"  Source: ", c.args["source"][1]>>,
              <<"  Destination: ", c.args["destination"]>>,
              <<"  Recursive: ", c.args["recursive"][1]>>,
              <<"  Patterns: ", c.args["patterns"]>>,
              <<"  Max depth: ", c.args["max_depth"][1]>> >>
      [] c.command = "config" ->
           << <<"Running Config command with args:">> >>
           \o (IF c.args["set"] # None /\ ~main_panics(c)
               THEN << <<"  Setting: ", c.args["set"][1][1], c.args["set"][1][2]>> >>
               ELSE << >>)
           \o (IF main_panics(c) THEN << >> ELSE
               (IF c.args["get"] # None
                THEN << <<"  Getting value for: ", c.args["get"][1]>> >> ELSE << >>)
               \o (IF c.args["list"][1]
                   THEN << <<"  Listing all configuration values">> >> ELSE << >>)
               \o << <<"  Using config file: ", c.args["file"][1]>> >>)
      [] c.command = "process" ->
           << <<"Running Process command with args:">>,
              <<"  Input files: ", c.args["input_files"][1]>>,
              <<"  Output format: ", c.args["format"][1]>>,
              <<"  Threads: ", c.args["threads"][1]>>,
              <<"  Batch size: ", c.args["batch_size"][1]>>,
              <<"  Dry run: ", c.args["dry_run"][1]>> >>
           \o (IF c.args["options"] # None
               THEN << <<"  Custom options:">> >>
                    \o [i \in 1..Len(c.args["options"][1]) |->
                          <<"    ", c.args["options"][1][i][1], c.args["options"][1][i][2]>>]
               ELSE << >>)

main_output(c) ==
    << <<"Log level set to: ", c.log_level[1]>> >>
    \o (IF c.verbose[1] THEN << <<"Verbose mode enabled">> >> ELSE << >>)
    \o command_output(c)

(***************************************************************************)
(* Argument vectors explored                                               *)
(***************************************************************************)
Long(id) == <<"-", "-">> \o Arg(id).long
Short(id) == <<"-", Arg(id).short>>

RECURSIVE Strings(_, _)
\* all strings over `chars` of length at most n
Strings(chars, n) ==
    IF n = 0 THEN {<<>>}
    ELSE Strings(chars, n - 1)
           \cup {Append(s, ch) : s \in Strings(chars, n - 1), ch \in chars}

Bogus == <<"-", "-", "b", "o", "g", "u", "s">>
Color == <<"c", "o", "l", "o", "r">>
Blue == <<"b", "l", "u", "e">>
ATxt == <<"a", ".", "t", "x", "t">>
BTxt == <<"b", ".", "t", "x", "t">>
KEqV == <<"k", "=", "v">>
Bad == <<"b", "a", "d">>
Four == <<"4">>

\* raw arguments offered while option `id` is collecting values
ValueTokens(id) ==
    CASE id = "log_level" -> {LogLevel.Debug, LogLevel.Error, Blue}
      [] id = "format" -> {OutputFormat.Json, Bad}
      [] id \in {"threads", "batch_size", "max_depth"} -> {Four, Bad}
      [] id = "options" -> Strings({"k", "="}, MaxStrLen) \cup {KEqV, Bad}
      [] id \in {"set", "patterns"} -> {Color, Blue}
      [] OTHER -> {ATxt}

\* flags offered inside command c
FlagTokens(c) ==
    CASE c = "" -> {Short("log_level"), Bogus}
      [] c = "files" -> {Long("source"), Long("patterns"), Long("max_depth"),
                         Long("verbose")}
      [] c = "config" -> {Long("set"), Long("get"), Long("list"), Short("list"),
                          Long("file"), Bogus}
      [] c = "process" -> {Long("options"), Long("threads"), Long("log_level"), Bogus}

\* raw arguments offered where a positional or subcommand name may stand
PositionalTokens(c) ==
    CASE c = "" -> {CommandName[n] : n \in DOMAIN CommandName} \cup {Bad}
      [] c = "process" -> {ATxt, BTxt}
      [] OTHER -> {ATxt}

Vocabulary(P, c) ==
    FlagTokens(c)
      \cup (IF P.parse_state = "Opt" THEN ValueTokens(P.pending.id) ELSE PositionalTokens(c))

(***************************************************************************)
(* Behaviour                                                               *)
(***************************************************************************)
Init ==
    /\ debug_assertions \in BOOLEAN
    /\ argv = <<>>
    /\ eof = FALSE
    /\ pc = "parse"
    /\ command = ""
    /\ root = NewParser("")
    /\ sub = NewParser("")
    /\ err = NoErr
    /\ cli = None
    /\ stdout = <<>>
    /\ exit_code = -1

\* Cli::parse() reads the next raw argument of the active command
ParseArg ==
    /\ pc = "parse"
    /\ Len(argv) < MaxArgs
    /\ \E t \in Vocabulary(IF command = "" THEN root ELSE sub, command) :
         /\ command = "" => possible_subcommand(root, t) = ""
         /\ argv' = Append(argv, t)
         /\ IF command = ""
            THEN /\ root' = parse_arg(root, "", t)
                 /\ sub' = sub
                 /\ err' = root'.err
            ELSE /\ sub' = parse_arg(sub, command, t)
                 /\ root' = root
                 /\ err' = sub'.err
         /\ pc' = IF err' # NoErr THEN "exit" ELSE "parse"
    /\ UNCHANGED <<debug_assertions, eof, command, cli, stdout, exit_code>>

\* the raw argument names a subcommand: the subcommand is built and its
\* parser takes over the remaining arguments
Subcommand ==
    /\ pc = "parse"
    /\ command = ""
    /\ Len(argv) < MaxArgs
    /\ \E t \in Vocabulary(root, "") :
         /\ possible_subcommand(root, t) # ""
         /\ argv' = Append(argv, t)
         /\ IF build_panics(possible_subcommand(root, t))
            THEN /\ err' = Error("panic", {}, NoString)
                 /\ pc' = "exit"
                 /\ command' = command
                 /\ sub' = sub
            ELSE /\ err' = err
                 /\ pc' = pc
                 /\ command' = possible_subcommand(root, t)
                 /\ sub' = NewParser(possible_subcommand(root, t))
    /\ UNCHANGED <<debug_assertions, eof, root, cli, stdout, exit_code>>

\* no raw argument is left: the subcommand's parser finishes first, then the
\* root's; on success the matches become the Cli struct
EndOfArgs ==
    /\ pc = "parse"
    /\ IF command = ""
       THEN /\ root' = finish(root, "", FALSE)
            /\ sub' = sub
            /\ err' = root'.err
            /\ cli' = cli
       ELSE /\ sub' = finish(sub, command, FALSE)
            /\ root' = IF sub'.err # NoErr THEN root ELSE finish(root, "", TRUE)
            /\ err' = IF sub'.err # NoErr THEN sub'.err ELSE root'.err
            /\ cli' = IF err' # NoErr THEN cli ELSE from_arg_matches(root', sub', command)
    /\ pc' = IF err' # NoErr THEN "exit" ELSE "main"
    /\ eof' = TRUE
    /\ UNCHANGED <<debug_assertions, argv, command, stdout, exit_code>>

\* an error path that reports the error and then carries on into main
Exit_falls_through ==
    /\ pc = "exit"
    /\ stdout' = << <<"Log level set to: ", DefaultLogLevel>> >>
    /\ exit_code' = 0
    /\ pc' = "done"
    /\ UNCHANGED <<debug_assertions, argv, eof, command, root, sub, err, cli>>

\* Cli::parse() failed: the error is reported and the process exits
Exit ==
    /\ pc = "exit"
    /\ exit_code' = IF err.kind = "panic" THEN 101 ELSE 2
    /\ pc' = "done"
    /\ UNCHANGED <<debug_assertions, argv, eof, command, root, sub, err, cli, stdout>>

\* fn main() after Cli::parse() returned
Main ==
    /\ pc = "main"
    /\ stdout' = main_output(cli)
    /\ err' = IF main_panics(cli) THEN Error("panic", {"set"}, NoString) ELSE err
    /\ exit_code' = IF main_panics(cli) THEN 101 ELSE 0
    /\ pc' = "done"
    /\ UNCHANGED <<debug_assertions, argv, eof, command, root, sub, cli>>

Next == ParseArg \/ Subcommand \/ EndOfArgs \/ Exit \/ Main

Spec == Init /\ [][Next]_vars

\* the behaviours of a build without debug assertions (cargo build --release)
InitRelease == Init /\ ~debug_assertions
SpecRelease == InitRelease /\ [][Next]_vars

(***************************************************************************)
(* Vocabulary of the properties                                            *)
(***************************************************************************)
\* the error kinds of the specification, from the parser's error constructors
ErrorKind(e) ==
    CASE e.kind = "none" -> "None"
      [] e.kind = "missing_required_argument" -> "MissingRequired"
      [] e.kind = "argument_conflict" -> "ConflictingArguments"
      [] e.kind \in {"empty_value", "wrong_number_of_values", "too_few_values",
                     "too_many_values"} -> "ArityError"
      [] e.kind \in {"invalid_value", "value_validation"} -> "InvalidValue"
      [] e.kind = "unknown_argument" /\ Len(e.raw) > 1 /\ e.raw[1] = "-" -> "UnknownArgument"
      [] e.kind \in {"unknown_argument", "invalid_subcommand"} -> "UnexpectedArgument"
      [] e.kind \in {"missing_subcommand", "display_help"} -> "MissingSubcommand"
      [] e.kind = "panic" -> "Panic"

Finished == pc = "done"
\* Cli::parse() has returned the Cli struct
Parsed == pc \in {"main", "done"} /\ err = NoErr
\* Cli::parse() has ended: it returned, or it failed
Ended == pc \in {"main", "exit", "done"}

\* the process has ended on the argument vector `args`: it read all of it, or
\* it stopped at an error (or panic) before looking at the rest
RunOn(args) ==
    /\ pc = "done"
    /\ Len(argv) <= Len(args)
    /\ argv = SubSeq(args, 1, Len(argv))
    /\ argv = args \/ ~eof
Succeeded == pc = "done" /\ exit_code = 0

\* position in argv of the subcommand name (0 if none): the first command
\* name that is not the value of a preceding --log-level / -l
SubcommandAt ==
    LET names == {CommandName[n] : n \in DOMAIN CommandName}
        at == {i \in 1..Len(argv) :
                 /\ argv[i] \in names
                 /\ ~(i > 1 /\ argv[i-1] \in {Long("log_level"), Short("log_level")})}
    IN IF at = {} THEN 0 ELSE CHOOSE i \in at : \A j \in at : i <= j

RootArgv == IF SubcommandAt = 0 THEN argv ELSE SubSeq(argv, 1, SubcommandAt - 1)
SubArgv == IF SubcommandAt = 0 THEN <<>> ELSE SubSeq(argv, SubcommandAt + 1, Len(argv))
Invoked(c) == SubcommandAt # 0 /\ argv[SubcommandAt] = CommandName[c]

\* how often one of `tokens` stands in `args`
Count(args, tokens) == Cardinality({i \in 1..Len(args) : args[i] \in tokens})

RECURSIVE ValuesAfter(_, _, _)
\* the raw arguments that follow occurrences of `tokens`, n per occurrence,
\* in the order given
ValuesAfter(args, tokens, n) ==
    IF Len(args) <= n THEN <<>>
    ELSE IF Head(args) \in tokens
    THEN SubSeq(args, 2, n + 1) \o ValuesAfter(SubSeq(args, n + 2, Len(args)), tokens, n)
    ELSE ValuesAfter(Tail(args), tokens, n)

IsFlag(t) == Len(t) > 1 /\ t[1] = "-"

\* the flag tokens that name argument id
Aliases(id) ==
    (IF Arg(id).long # NoString THEN {Long(id)} ELSE {})
      \cup (IF Arg(id).short # "" THEN {Short(id)} ELSE {})

\* the arguments of command c that flag token t may denote
Denotes(c, t) == {id \in SeqToSet(CommandArgs(c)) : t \in Aliases(id)}

\* the argument a flag token is taken for when the parse goes on: a
\* subcommand's own argument before a global one of the same name
FlagArg(c, t) ==
    LET own == {id \in SeqToSet(Commands[c]) : t \in Aliases(id)}
        all == Denotes(c, t) IN
    IF ~IsFlag(t) \/ all = {} THEN ""
    ELSE IF c # "" /\ own # {} THEN CHOOSE id \in own : TRUE
    ELSE CHOOSE id \in all : TRUE

\* a raw value the argument's type accepts
ValidRaw(id, raw) ==
    CASE id = "log_level" -> raw \in {LogLevel[v] : v \in DOMAIN LogLevel}
      [] id = "format" -> raw \in {OutputFormat[v] : v \in DOMAIN OutputFormat}
      [] id \in {"threads", "batch_size", "max_depth"} -> raw = Four
      [] id = "options" -> \E i \in 1..Len(raw) : raw[i] = "="
      [] OTHER -> TRUE

\* the typed value a valid raw value of the vocabulary stands for
TypedValue(raw) ==
    CASE raw = Four -> 4
      [] raw = LogLevel.Debug -> "Debug"
      [] raw = LogLevel.Error -> "Error"
      [] raw = OutputFormat.Json -> "Json"
      [] OTHER -> raw

RECURSIVE LeadingValues(_, _)
\* how many of the first n raw arguments of `args` are values, not flags
LeadingValues(args, n) ==
    IF n = 0 \/ args = <<>> \/ IsFlag(Head(args)) THEN 0
    ELSE 1 + LeadingValues(Tail(args), n - 1)

RECURSIVE WellFormed(_, _, _)
\* `args` is a sequence of known flags of command c, each followed by exactly
\* the values it takes, each value valid, no single-valued flag or switch
\* given twice, and nothing else (no positional)
WellFormed(args, c, seen) ==
    IF args = <<>> THEN TRUE
    ELSE LET id == FlagArg(c, Head(args)) IN
         /\ id # ""
         /\ Arg(id).action = "Append" \/ id \notin seen
         /\ Arg(id).max # -1
         /\ Len(args) > Arg(id).max
         /\ LeadingValues(Tail(args), Arg(id).max) = Arg(id).max
         /\ \A i \in 2..(Arg(id).max + 1) : ValidRaw(id, args[i])
         /\ WellFormed(SubSeq(args, Arg(id).max + 2, Len(args)), c, seen \cup {id})

RECURSIVE PositionalsOf(_, _)
\* the raw arguments of `args` that are neither flags nor values of a flag
PositionalsOf(args, c) ==
    IF args = <<>> THEN <<>>
    ELSE IF IsFlag(Head(args))
    THEN LET id == FlagArg(c, Head(args))
             n == IF id = "" THEN 0
                  ELSE LeadingValues(Tail(args),
                                     IF Arg(id).max = -1 THEN Len(args) ELSE Arg(id).max)
         IN PositionalsOf(SubSeq(args, n + 2, Len(args)), c)
    ELSE <<Head(args)>> \o PositionalsOf(Tail(args), c)

\* s split at its first "=": the text before it, and all text after it
SplitsAtFirstEq(s, pair) ==
    \E pos \in 1..Len(s) :
        /\ s[pos] = "="
        /\ \A i \in 1..(pos - 1) : s[i] # "="
        /\ pair = <<SubSeq(s, 1, pos - 1), SubSeq(s, pos + 1, Len(s))>>

(***************************************************************************)
(* C4                                                                      *)
(***************************************************************************)
OptionsRaw == ValuesAfter(SubArgv, Aliases("options"), 1)

C4_Example == <<CommandName.process, ATxt, Long("options"), KEqV, Long("options"), Bad>>

\* C4: every value bound for --options is its raw string split at the first
\* "=" (key before, everything after as value); a raw string without "=" is
\* never bound and fails with InvalidValue carrying that raw string, the
\* occurrences before it staying bound; the vector process a.txt --options
\* k=v --options bad fails so for "bad" after binding ("k", "v").
C4_KeyValSplitsAtFirstEq ==
    (Invoked("process") /\ command = "process") =>
      LET bound == sub.matches["options"].vals IN
      /\ Len(bound) <= Len(OptionsRaw)
      /\ \A i \in 1..Len(bound) : SplitsAtFirstEq(OptionsRaw[i], bound[i])
      /\ (err.kind = "value_validation" /\ err.args = {"options"}) =>
            /\ ErrorKind(err) = "InvalidValue"
            /\ Len(bound) < Len(OptionsRaw)
            /\ err.raw = OptionsRaw[Len(bound) + 1]
            /\ \A i \in 1..Len(err.raw) : err.raw[i] # "="
      /\ Succeeded =>
            /\ Len(bound) = Len(OptionsRaw)
            /\ cli.args["options"] = IF OptionsRaw = <<>> THEN None ELSE Some(bound)
      /\ RunOn(C4_Example) =>
            /\ ErrorKind(err) = "InvalidValue"
            /\ err.args = {"options"}
            /\ err.raw = Bad
            /\ bound = << <<(<<"k">>), (<<"v">>)>> >>

C4_Witness ==
    /\ RunOn(C4_Example)
    /\ ErrorKind(err) = "InvalidValue"

(***************************************************************************)
(* C8                                                                      *)
(***************************************************************************)
\* C8: main prints nothing unless Cli::parse() succeeded: once an error is
\* recorded stdout is and stays empty, and any output implies that every raw
\* argument was consumed, nothing is pending, validation passed and the
\* process ended with status 0.
C8_NoOutputUnlessParsed ==
    /\ err # NoErr => stdout = <<>>
    /\ (Finished /\ exit_code # 0) => stdout = <<>>
    /\ stdout # <<>> =>
          /\ Finished /\ exit_code = 0 /\ cli # None
          /\ root.err = NoErr /\ sub.err = NoErr
          /\ root.pending = NoPending /\ sub.pending = NoPending
          /\ validate(sub, command, FALSE) = NoErr

C8_Witness ==
    /\ Finished
    /\ ErrorKind(err) = "MissingRequired"
    /\ exit_code = 2
    /\ stdout = <<>>

(***************************************************************************)
(* C10                                                                     *)
(***************************************************************************)
\* C10: in every subcommand invoked, no two distinct arguments among the
\* subcommand's own and the global ones answer to the same flag token, so a
\* flag token denotes at most one argument.
C10_AliasLookupUnambiguous ==
    \A c \in DOMAIN Commands :
        Invoked(c) =>
            \A a, b \in SeqToSet(CommandArgs(c)) :
                a # b => Aliases(a) \cap Aliases(b) = {}

(***************************************************************************)
(* C7                                                                      *)
(***************************************************************************)
\* the declared default_value of each argument that has one, as typed
DeclaredDefault ==
    [log_level  |-> "Info",
     max_depth  |-> 10,
     file       |-> <<"c","o","n","f","i","g",".","y","a","m","l">>,
     format     |-> "Text",
     threads    |-> 1,
     batch_size |-> 100]

\* the raw values supplied for argument id: for the global --log-level those
\* given before the subcommand name followed by those given after it
Supplied(id) ==
    IF id = "log_level"
    THEN ValuesAfter(RootArgv, Aliases(id), 1) \o ValuesAfter(SubArgv, {Long(id)}, 1)
    ELSE ValuesAfter(SubArgv, Aliases(id), 1)

Bound(id) == IF id = "log_level" THEN cli.log_level ELSE cli.args[id]

\* C7: after a successful parse every argument with a declared default that
\* was not supplied holds exactly that default, and every such argument that
\* was supplied holds the (last) supplied value.
C7_DefaultsFillUnsupplied ==
    Succeeded =>
        \A id \in DOMAIN DeclaredDefault :
            (id = "log_level" \/ id \in SeqToSet(Commands[command])) =>
                IF Supplied(id) = <<>>
                THEN Bound(id) = Some(DeclaredDefault[id])
                ELSE Bound(id) = Some(TypedValue(Supplied(id)[Len(Supplied(id))]))

C7_Witness ==
    /\ Succeeded
    /\ command = "process"
    /\ Supplied("threads") # <<>>
    /\ Supplied("format") = <<>>
    /\ cli.args["threads"] = Some(4)
    /\ cli.args["format"] = Some("Text")

(***************************************************************************)
(* C9                                                                      *)
(***************************************************************************)
RECURSIVE ValuesUntilFlag(_, _, _)
\* the values of a flag that takes one or more values per occurrence: every
\* raw argument between an occurrence of `tokens` and the next flag
ValuesUntilFlag(args, tokens, collecting) ==
    IF args = <<>> THEN <<>>
    ELSE IF IsFlag(Head(args))
    THEN ValuesUntilFlag(Tail(args), tokens, Head(args) \in tokens)
    ELSE (IF collecting THEN <<Head(args)>> ELSE <<>>)
           \o ValuesUntilFlag(Tail(args), tokens, collecting)

\* the flags of the active command that hold a single value or are switches
SingleValued == {id \in SeqToSet(CommandArgs(command)) :
                    Arg(id).action # "Append" /\ ~IsPositional(id)}

\* how often argument id was given on the active subcommand's command line
TimesGiven(id) ==
    Cardinality({i \in 1..Len(SubArgv) :
                    IsFlag(SubArgv[i]) /\ FlagArg(command, SubArgv[i]) = id})

ProcessPositionals == PositionalsOf(SubArgv, "process")

\* C3 as stated: every finished invocation of process without a positional
\* input file ended with MissingRequired for input_files.
C3_AlwaysMissingRequired ==
    (Finished /\ Invoked("process") /\ ProcessPositionals = <<>>) =>
        /\ ErrorKind(err) = "MissingRequired"
        /\ err.args = {"input_files"}

\* C3 amended: an invocation of process without a positional input file
\* never succeeds; it fails with MissingRequired for input_files (and for
\* nothing else) whenever the options given with it are themselves well
\* formed, while an unknown, incomplete, repeated or invalid option is
\* reported instead of it.  After a successful parse of process, input_files
\* holds the positional arguments, at least one, in the order given.
C3_ProcessRequiresInputFiles ==
    /\ (Ended /\ Invoked("process") /\ ProcessPositionals = <<>>) =>
          /\ ~Parsed
          /\ ErrorKind(err) # "None"
          /\ ErrorKind(err) = "MissingRequired" => err.args = {"input_files"}
          /\ WellFormed(SubArgv, "process", {}) => ErrorKind(err) = "MissingRequired"
    /\ (Parsed /\ command = "process") =>
          /\ ProcessPositionals # <<>>
          /\ cli.args["input_files"] = Some(ProcessPositionals)

C3_Witness ==
    /\ Finished
    /\ Invoked("process")
    /\ SubArgv # <<>>
    /\ ProcessPositionals = <<>>
    /\ ErrorKind(err) = "MissingRequired"
    /\ err.args = {"input_files"}

(***************************************************************************)
(* C5                                                                      *)
(***************************************************************************)
\* C5 as stated: structural and validation errors are aggregated, so a
\* process invocation that lacks its input files and ends with an error of
\* one of those kinds has the missing input_files listed in that error.
C5_ErrorsAggregated ==
    (/\ Finished /\ Invoked("process") /\ ProcessPositionals = <<>>
     /\ ErrorKind(err) \in {"MissingRequired", "ConflictingArguments", "ArityError",
                            "UnexpectedArgument", "InvalidValue"})
        => "input_files" \in err.args

\* C5 amended: the error returned is a single one, the first detected; it
\* names one argument (a conflict names the members of the one group in
\* conflict), names no argument that is absent from the command line unless it is
\* MissingRequired, and an unknown or unexpected argument is the last raw argument read.
C5_FirstErrorOnly ==
    /\ (err # NoErr /\ Cardinality(err.args) > 1) =>
          /\ err.kind = "argument_conflict"
          /\ \E g \in ArgGroups(command) : err.args \subseteq g.args
    /\ (err # NoErr /\ ErrorKind(err) # "MissingRequired") =>
          \A id \in err.args : Count(argv, Aliases(id)) > 0
    /\ ErrorKind(err) \in {"UnknownArgument", "UnexpectedArgument"} =>
          /\ err.raw = argv[Len(argv)]
          /\ err.args = {}

C5_Witness ==
    /\ Finished
    /\ Invoked("process")
    /\ ProcessPositionals = <<>>
    /\ ErrorKind(err) = "InvalidValue"
    /\ err.args = {"threads"}

(***************************************************************************)
(* C1, C2, C6                                                              *)
(***************************************************************************)
\* how often argument id of command c was given after the subcommand name
GivenIn(c, id) ==
    Cardinality({i \in 1..Len(SubArgv) :
                    IsFlag(SubArgv[i]) /\ FlagArg(c, SubArgv[i]) = id})

ConfigActionsGiven == {id \in {"set", "get", "list"} : GivenIn("config", id) > 0}

ConfigActionsBound ==
    {id \in {"set", "get"} : cli.args[id] # None}
      \cup (IF cli.args["list"] = Some(TRUE) THEN {"list"} ELSE {})

\* C1: for config with otherwise well-formed arguments, none of --set, --get,
\* --list yields MissingRequired for the group, two or more of them yield
\* ConflictingArguments, exactly one parses successfully; and after every
\* successful parse of config exactly one member of the group is bound.
C1_ConfigActionExactlyOne ==
    /\ (/\ Finished /\ Invoked("config")
        /\ WellFormed(RootArgv, "", {}) /\ WellFormed(SubArgv, "config", {})) =>
          /\ Cardinality(ConfigActionsGiven) = 0 =>
                ErrorKind(err) = "MissingRequired" /\ err.args = {"config_action"}
          /\ Cardinality(ConfigActionsGiven) >= 2 =>
                ErrorKind(err) = "ConflictingArguments" /\ err.args = ConfigActionsGiven
          /\ Cardinality(ConfigActionsGiven) = 1 =>
                Succeeded /\ ConfigActionsBound = ConfigActionsGiven
    /\ (Succeeded /\ command = "config") => Cardinality(ConfigActionsBound) = 1

C2_Example == <<CommandName.config, Long("set"), Color, Blue>>

\* position in SubArgv of the first --set / -s (0 if none)
FirstSet ==
    LET at == {i \in 1..Len(SubArgv) : SubArgv[i] \in Aliases("set")}
    IN IF at = {} THEN 0 ELSE CHOOSE i \in at : \A j \in at : i <= j

\* C2: config --set followed by fewer than two values (end of input or a
\* declared flag first) yields ArityError for set; with two values both are bound in
\* input order, config --set color blue succeeding with path config and
\* set = [color, blue]; and whenever set is bound main's reads of
\* set_values[0] and set_values[1] are in bounds.
C2_SetTakesTwoValues ==
    /\ RunOn(C2_Example) =>
          /\ Succeeded
          /\ cli.command = "config"
          /\ cli.args["set"] = Some(<<Color, Blue>>)
    /\ (/\ Finished /\ Invoked("config") /\ FirstSet # 0
        /\ WellFormed(SubSeq(SubArgv, 1, FirstSet - 1), "config", {})
        /\ LeadingValues(SubSeq(SubArgv, FirstSet + 1, Len(SubArgv)), 2) < 2
        /\ \A i \in (FirstSet + 1)..Len(SubArgv) :
              IsFlag(SubArgv[i]) => FlagArg("config", SubArgv[i]) # "") =>
          ErrorKind(err) = "ArityError" /\ err.args = {"set"}
    /\ (pc \in {"main", "done"} /\ cli # None /\ command = "config"
        /\ cli.args["set"] # None) =>
          /\ Len(cli.args["set"][1]) >= 2
          /\ cli.args["set"][1] = ValuesAfter(SubArgv, Aliases("set"), 2)
          /\ ~main_panics(cli)

\* C6: a default never counts as the argument being supplied: config and
\* config --file x fail with MissingRequired for the group although file
\* and list have defaults, no parse of config succeeds without a member of
\* the group on the command line, and after any successful parse every
\* required argument was given on the command line.
C6_DefaultsDoNotSatisfyRequired ==
    /\ (RunOn(<<CommandName.config>>)
          \/ RunOn(<<CommandName.config, Long("file"), ATxt>>)) =>
          ErrorKind(err) = "MissingRequired" /\ err.args = {"config_action"}
    /\ (Finished /\ Invoked("config") /\ ConfigActionsGiven = {}) => ~Succeeded
    /\ Succeeded =>
          /\ command = "config" => ConfigActionsGiven # {}
          /\ command = "files" => GivenIn("files", "source") > 0
          /\ command = "process" => ProcessPositionals # <<>>

====
